---- MODULE Spec2Model ----
(***************************************************************************)
(* Model of streamlit_app.py ("Trade Volume Detective").                   *)
(*                                                                         *)
(* The script is re-executed from top to bottom on every user interaction  *)
(* (a sidebar selection or a press of "Run Export Analysis").  The state   *)
(* below is what one execution leaves behind: the selected target, whether *)
(* the button was pressed in this execution, the HTTP exchange it made,    *)
(* the table fetch_ssb_data returned and the elements it rendered.         *)
(***************************************************************************)
EXTENDS Integers, Sequences, FiniteSets, Bags, TLC

VARIABLES target,      \* st.sidebar.selectbox value
          pressed,     \* st.button("Run Export Analysis") value in this run
          posted,      \* hs codes sent by requests.post in this run, <<>> if none
          response,    \* the API's answer to that request
          df,          \* table returned by fetch_ssb_data in this run
          ui,          \* elements rendered below the header in this run
          chart,       \* what st.line_chart was given
          preview,     \* what st.dataframe was given
          netCalls,    \* number of requests.post calls so far
          ssbPresses   \* number of button presses made on an SSB target

vars == <<target, pressed, posted, response, df, ui, chart, preview,
          netCalls, ssbPresses>>

----------------------------------------------------------------------------
(* Bounds *)

MaxRows == 2        \* rows of a parsed table, retriever-level specification
AppRows == 1        \* rows of a parsed table, application-level specification
MaxCalls == 2       \* requests issued in one behaviour

----------------------------------------------------------------------------
(* Configuration registry *)

COMPANY_MAP ==
  [n \in {"Borregaard (Norway)", "Norbit (Norway)",
          "B&C Speakers (Italy)", "Powersoft (Italy)"} |->
     CASE n = "Borregaard (Norway)"  -> [source |-> "SSB", codes |-> <<"38040000">>]
       [] n = "Norbit (Norway)"      -> [source |-> "SSB", codes |-> <<"90158000">>]
       [] n = "B&C Speakers (Italy)" -> [source |-> "EUROSTAT", codes |-> <<"85182900">>]
       [] n = "Powersoft (Italy)"    -> [source |-> "EUROSTAT", codes |-> <<"85184000">>]]

\* list(COMPANY_MAP.keys()), in insertion order
Keys == <<"Borregaard (Norway)", "Norbit (Norway)",
          "B&C Speakers (Italy)", "Powersoft (Italy)">>

Range(s) == {s[i] : i \in DOMAIN s}

----------------------------------------------------------------------------
(* Tables.  A table is [cols: sequence of column names, rows: sequence of  *)
(* rows], a row being a function from the column names to cell values.     *)

EmptyDF == [cols |-> <<>>, rows |-> <<>>]

\* DataFrame.empty
IsEmpty(t) == Len(t.rows) = 0 \/ Len(t.cols) = 0

\* Month labels a response may carry, as sequences of characters.
MonthCodes ==
  { <<"2","0","2","4","M","0","3">>,     \* 2024M03
    <<"2","0","2","3","M","1","2">>,     \* 2023M12
    <<"2","0","2","4","M","1","0">>,     \* 2024M10
    <<"2","0","2","4","M","3">>,         \* 2024M3
    <<"2","0","2","4","M","1","3">>,     \* 2024M13
    <<"2","0","2","4","0","3">> }        \* 202403

Vals == {1, 2}

\* The labels and measures used where the whole application is explored.
AppCodes ==
  { <<"2","0","2","4","M","0","3">>,
    <<"2","0","2","3","M","1","2">>,
    <<"2","0","2","4","M","1","3">> }

AppVals == {1}

SeqsUpTo(S, n) == UNION {[1..k -> S] : k \in 0..n}

\* Tables pyjstat may hand back, of at most n rows with month labels from
\* codes and measures from vals: with or without a month dimension, with or
\* without a column named value, with a dimension already labelled date.
Tables(n, codes, vals) ==
     {[cols |-> <<"month", "value">>, rows |-> rs] :
        rs \in SeqsUpTo({[month |-> m, value |-> v] : m \in codes, v \in vals}, n)}
  \cup
     {[cols |-> <<"month", "contents">>, rows |-> rs] :
        rs \in SeqsUpTo({[month |-> m, contents |-> v] : m \in codes, v \in vals}, n)}
  \cup
     {[cols |-> <<"commodity", "value">>, rows |-> rs] :
        rs \in SeqsUpTo({[commodity |-> c, value |-> v] : c \in vals, v \in vals}, n)}
  \cup
     {[cols |-> <<"date", "month", "value">>, rows |-> rs] :
        rs \in SeqsUpTo({[date |-> 0, month |-> m, value |-> v] :
                            m \in codes, v \in vals}, n)}

----------------------------------------------------------------------------
(* HTTP exchange *)

\* connected: requests.post got an answer; status: its HTTP status;
\* wellformed: pyjstat can read the body; table: the dataframe it writes.
NoResponse == [connected |-> FALSE, status |-> 0, wellformed |-> FALSE, table |-> EmptyDF]

Responses(n, codes, vals) ==
     {[connected |-> FALSE, status |-> 0, wellformed |-> FALSE, table |-> EmptyDF]}
  \cup
     {[connected |-> TRUE, status |-> s, wellformed |-> FALSE, table |-> EmptyDF] :
        s \in {200, 301, 500}}
  \cup
     {[connected |-> TRUE, status |-> s, wellformed |-> TRUE, table |-> t] :
        s \in {200, 301}, t \in Tables(n, codes, vals)}

----------------------------------------------------------------------------
(* pd.to_datetime(df['month'], format='%YM%m') *)

DigitVal ==
  [c \in {"0","1","2","3","4","5","6","7","8","9"} |->
     CASE c = "0" -> 0 [] c = "1" -> 1 [] c = "2" -> 2 [] c = "3" -> 3
       [] c = "4" -> 4 [] c = "5" -> 5 [] c = "6" -> 6 [] c = "7" -> 7
       [] c = "8" -> 8 [] c = "9" -> 9]

IsDigit(c) == c \in DOMAIN DigitVal

\* %Y : exactly four digits, at positions 1..4
MatchYear(s) == Len(s) >= 4 /\ \A i \in 1..4 : IsDigit(s[i])

\* the literal M of the format, at position 5
MatchSep(s) == Len(s) >= 5 /\ s[5] = "M"

\* %m : 1[0-2] | 0[1-9] | [1-9], and nothing may follow it
MatchMonth(s) ==
  \/ /\ Len(s) = 7
     /\ \/ s[6] = "1" /\ s[7] \in {"0", "1", "2"}
        \/ s[6] = "0" /\ IsDigit(s[7]) /\ s[7] # "0"
  \/ /\ Len(s) = 6
     /\ IsDigit(s[6]) /\ s[6] # "0"

Matches(s) == MatchYear(s) /\ MatchSep(s) /\ MatchMonth(s)

YearField(s) ==
  1000 * DigitVal[s[1]] + 100 * DigitVal[s[2]] + 10 * DigitVal[s[3]] + DigitVal[s[4]]

MonthField(s) ==
  IF Len(s) = 7 THEN 10 * DigitVal[s[6]] + DigitVal[s[7]] ELSE DigitVal[s[6]]

\* a conversion that counts months from zero
ToDatetime_zeroBased(s) ==
  [year |-> YearField(s), month |-> MonthField(s) - 1, day |-> 1]

\* A format without %d yields day 1.
ToDatetime(s) == [year |-> YearField(s), month |-> MonthField(s), day |-> 1]

\* Timestamps compare chronologically.
DateKey(d) == (d.year * 12 + (d.month - 1)) * 31 + (d.day - 1)

----------------------------------------------------------------------------
(* DataFrame operations used by the script *)

\* df['date'] = ... : replaces the column date in place, else appends it
AssignDateCols(cols) ==
  IF "date" \in Range(cols) THEN cols ELSE Append(cols, "date")

AssignDateRow(r) ==
  [c \in (DOMAIN r) \cup {"date"} |->
     IF c = "date" THEN ToDatetime(r["month"]) ELSE r[c]]

AssignDate(t) ==
  [cols |-> AssignDateCols(t.cols),
   rows |-> [i \in DOMAIN t.rows |-> AssignDateRow(t.rows[i])]]

RECURSIVE Insert(_, _)
\* insert row r after the rows of the sorted sequence s that are not later
Insert(r, s) ==
  IF s = <<>> THEN <<r>>
  ELSE IF DateKey(s[Len(s)]["date"]) <= DateKey(r["date"]) THEN Append(s, r)
  ELSE Append(Insert(r, SubSeq(s, 1, Len(s) - 1)), s[Len(s)])

RECURSIVE SortRows(_)
SortRows(s) ==
  IF s = <<>> THEN <<>>
  ELSE Insert(s[Len(s)], SortRows(SubSeq(s, 1, Len(s) - 1)))

\* a sort that does not reorder
SortValues_unsorted(t) == t

\* a sort that keeps one row per date
SortValues_dedup(t) ==
  LET rs == SortRows(t.rows)
      keep(i) == \A j \in 1..(i - 1) : rs[j]["date"] # rs[i]["date"]
      F[i \in 0..Len(rs)] ==
        IF i = 0 THEN <<>> ELSE IF keep(i) THEN Append(F[i - 1], rs[i]) ELSE F[i - 1]
  IN [cols |-> t.cols, rows |-> F[Len(rs)]]

\* df.sort_values('date'): ascending; the order of rows with equal dates is
\* that of numpy's sort, which for short arrays is an insertion sort.
SortValues(t) == [cols |-> t.cols, rows |-> SortRows(t.rows)]

\* df.tail(n)
Tail_(t, n) ==
  [cols |-> t.cols,
   rows |-> IF Len(t.rows) <= n THEN t.rows
            ELSE SubSeq(t.rows, Len(t.rows) - n + 1, Len(t.rows))]

\* df.set_index(col): the column leaves the columns and becomes the index
SetIndex(t, col) ==
  [cols  |-> SelectSeq(t.cols, LAMBDA c : c # col),
   index |-> [i \in DOMAIN t.rows |-> t.rows[i][col]],
   rows  |-> t.rows]

----------------------------------------------------------------------------
(* fetch_ssb_data *)

\* res.raise_for_status(): raises for 4xx and 5xx
RaiseForStatus(status) == 400 <= status /\ status < 600

\* a retriever that treats a table without rows as a failure
OnEmpty_raises(t) == [exc |-> "ValueError", df |-> EmptyDF]

\* lines 83-84: a table without rows is answered by pd.DataFrame()
OnEmpty(t) == [exc |-> "", df |-> EmptyDF]

\* Lines 73-84, the body of the try: the exception it raises ("" if none)
\* and the table it returns.
TryBody(resp) ==
  IF ~resp.connected THEN [exc |-> "ConnectionError", df |-> EmptyDF]
  ELSE IF RaiseForStatus(resp.status) THEN [exc |-> "HTTPError", df |-> EmptyDF]
  ELSE IF ~resp.wellformed THEN [exc |-> "ParseError", df |-> EmptyDF]
  ELSE IF ~IsEmpty(resp.table)
       THEN IF "month" \notin Range(resp.table.cols)
              THEN [exc |-> "KeyError", df |-> EmptyDF]
            ELSE IF \E i \in DOMAIN resp.table.rows :
                       ~Matches(resp.table.rows[i]["month"])
              THEN [exc |-> "ValueError", df |-> EmptyDF]
            ELSE [exc |-> "", df |-> SortValues(AssignDate(resp.table))]
       ELSE OnEmpty(resp.table)

\* a handler for the exceptions of requests only
Caught_requestsOnly(exc) == exc \in {"ConnectionError", "HTTPError"}

\* except Exception: every exception the body raises is an Exception
Caught(exc) == exc \in {"ConnectionError", "HTTPError", "ParseError",
                        "KeyError", "ValueError"}

\* a retriever that posts again when the first answer is no good
PostCalls_retry(resp) ==
  IF ~resp.connected \/ resp.status >= 400 THEN 2 ELSE 1

\* number of requests.post calls one invocation makes
PostCalls(resp) == 1

El(kind, text) == [kind |-> kind, text |-> text]

\* a handler that swallows the exception
ErrorElements_silent(exc) == <<>>

\* line 87
ErrorElements(exc) == <<El("error", exc)>>

\* The table returned, the elements rendered (st.error) and the exception
\* that leaves the function ("" if none).
fetch_ssb_data(hs_codes, resp) ==
  LET r == TryBody(resp) IN
    IF r.exc = "" THEN [df |-> r.df, ui |-> <<>>, raised |-> ""]
    ELSE IF Caught(r.exc)
      THEN [df |-> EmptyDF, ui |-> ErrorElements(r.exc), raised |-> ""]
    ELSE [df |-> EmptyDF, ui |-> <<>>, raised |-> r.exc]

----------------------------------------------------------------------------
(* Execution logic, lines 102-136 *)

\* a branch that sends every source to the retriever
IsSSB_always(info) == TRUE

\* line 105
IsSSB(info) == info.source = "SSB"

\* line 125
IsEurostat(info) == info.source = "EUROSTAT"

\* line 111
MetricCol(t) == IF "value" \in Range(t.cols) THEN "value" ELSE t.cols[Len(t.cols)]

NoChart == [col |-> "", index |-> <<>>, data |-> <<>>]

\* df.set_index("date")[metric_col]: KeyError unless the column is still there
ChartRaises(t) == MetricCol(t) \notin Range(SetIndex(t, "date").cols)

ChartOf(t) ==
  LET ix == SetIndex(t, "date") IN
    [col   |-> MetricCol(t),
     index |-> ix.index,
     data  |-> [i \in DOMAIN ix.rows |-> ix.rows[i][MetricCol(t)]]]

\* lines 108-123: what the caller renders for the table fetch_ssb_data returned
RenderSSB(t) ==
  IF ~IsEmpty(t)
    THEN IF ChartRaises(t)
           THEN [ui |-> <<El("subheader", "Monthly Export Value (NOK)"),
                          El("exception", "KeyError")>>,
                 chart |-> NoChart, preview |-> EmptyDF]
           ELSE [ui |-> <<El("subheader", "Monthly Export Value (NOK)"),
                          El("line_chart", MetricCol(t)),
                          El("write", "Raw Data Sample"),
                          El("dataframe", "tail"),
                          El("success", "Analyst Note")>>,
                 chart |-> ChartOf(t), preview |-> Tail_(t, 5)]
    ELSE [ui |-> <<El("warning", "No data returned")>>,
          chart |-> NoChart, preview |-> EmptyDF]

\* lines 126-136
EurostatNotice == <<El("warning", "Eurostat API Notice"), El("markdown", "Eurostat steps")>>

\* One execution of the script with the button pressed, the API answering
\* resp if it is asked.
RunAnalysis(tgt, resp) ==
  LET info == COMPANY_MAP[tgt] IN
    IF IsSSB(info)
      THEN LET f == fetch_ssb_data(info.codes, resp) IN
           LET r == IF f.raised # ""
                      THEN [ui |-> <<El("exception", f.raised)>>,
                            chart |-> NoChart, preview |-> EmptyDF]
                      ELSE RenderSSB(f.df) IN
             [posted |-> info.codes, response |-> resp, calls |-> PostCalls(resp),
              df |-> f.df, ui |-> f.ui \o r.ui, chart |-> r.chart, preview |-> r.preview]
    ELSE IF IsEurostat(info)
      THEN [posted |-> <<>>, response |-> NoResponse, calls |-> 0, df |-> EmptyDF,
            ui |-> EurostatNotice, chart |-> NoChart, preview |-> EmptyDF]
    ELSE [posted |-> <<>>, response |-> NoResponse, calls |-> 0, df |-> EmptyDF,
          ui |-> <<>>, chart |-> NoChart, preview |-> EmptyDF]

----------------------------------------------------------------------------
(* Actions *)

\* The script as first loaded: the selectbox shows its first option and the
\* button is not pressed.
Init ==
  /\ target = Keys[1]
  /\ pressed = FALSE
  /\ posted = <<>>
  /\ response = NoResponse
  /\ df = EmptyDF
  /\ ui = <<>>
  /\ chart = NoChart
  /\ preview = EmptyDF
  /\ netCalls = 0
  /\ ssbPresses = 0

\* The user picks another company: the script reruns with the button False.
Select ==
  \E t \in Range(Keys) :
    /\ t # target
    /\ target' = t
    /\ pressed' = FALSE
    /\ posted' = <<>>
    /\ response' = NoResponse
    /\ df' = EmptyDF
    /\ ui' = <<>>
    /\ chart' = NoChart
    /\ preview' = EmptyDF
    /\ UNCHANGED <<netCalls, ssbPresses>>

\* The script reruns with the button True, the API answering resp.
Run(resp) ==
  LET o == RunAnalysis(target, resp) IN
    /\ netCalls + o.calls <= MaxCalls
    /\ pressed' = TRUE
    /\ posted' = o.posted
    /\ response' = o.response
    /\ df' = o.df
    /\ ui' = o.ui
    /\ chart' = o.chart
    /\ preview' = o.preview
    /\ netCalls' = netCalls + o.calls
    /\ ssbPresses' = ssbPresses + (IF COMPANY_MAP[target].source = "SSB" THEN 1 ELSE 0)
    /\ UNCHANGED target

\* The user presses "Run Export Analysis".
Press ==
  \E resp \in (IF COMPANY_MAP[target].source = "SSB"
                 THEN Responses(AppRows, AppCodes, AppVals) ELSE {NoResponse}) : Run(resp)

Next == Select \/ Press

Spec == Init /\ [][Next]_vars

\* The retriever on its own: an SSB target is selected, the answer the API
\* is about to give is drawn from the larger set, and the button is pressed
\* once.
InitFetch ==
  /\ target \in {k \in Range(Keys) : COMPANY_MAP[k].source = "SSB"}
  /\ pressed = FALSE
  /\ posted = <<>>
  /\ response \in Responses(MaxRows, MonthCodes, Vals)
  /\ df = EmptyDF
  /\ ui = <<>>
  /\ chart = NoChart
  /\ preview = EmptyDF
  /\ netCalls = 0
  /\ ssbPresses = 0

PressOnce == ~pressed /\ Run(response)

NextFetch == PressOnce

SpecFetch == InitFetch /\ [][NextFetch]_vars

----------------------------------------------------------------------------
(* Vocabulary of the properties, stated on the exchange and on what was    *)
(* rendered, not on the operators above.                                   *)

SourceOf(t) == COMPANY_MAP[t].source

\* fetch_ssb_data was invoked in this run
Fetched == pressed /\ posted # <<>>

NoRows(t) == t.rows = <<>>

Kinds(elems) == {elems[i].kind : i \in DOMAIN elems}

Count(elems, kinds) == Cardinality({i \in DOMAIN elems : elems[i].kind \in kinds})

MessageKinds == {"error", "warning", "info", "success"}

DigitChars == <<"0", "1", "2", "3", "4", "5", "6", "7", "8", "9">>

Numeral(c) == (CHOOSE i \in 1..10 : DigitChars[i] = c) - 1

RECURSIVE Decimal(_)
Decimal(s) == IF s = <<>> THEN 0 ELSE 10 * Decimal(SubSeq(s, 1, Len(s) - 1)) + Numeral(s[Len(s)])

AllDigits(s) == \A i \in DOMAIN s : s[i] \in Range(DigitChars)

NamedYear(s) == Decimal(SubSeq(s, 1, 4))

NamedMonth(s) == Decimal(SubSeq(s, 6, Len(s)))

\* four digits, the letter M, then a month number 1..12 in one or two digits
NamesMonth(s) ==
  /\ Len(s) \in {6, 7}
  /\ AllDigits(SubSeq(s, 1, 4))
  /\ s[5] = "M"
  /\ AllDigits(SubSeq(s, 6, Len(s)))
  /\ NamedMonth(s) \in 1..12

FirstOfMonth(s) == [year |-> NamedYear(s), month |-> NamedMonth(s), day |-> 1]

Is2xx(resp) == resp.connected /\ 200 <= resp.status /\ resp.status <= 299

Parsed(resp) == resp.connected /\ resp.wellformed

MonthMissing(resp) ==
  Parsed(resp) /\ ~NoRows(resp.table) /\ "month" \notin Range(resp.table.cols)

MonthMalformed(resp) ==
  /\ Parsed(resp) /\ "month" \in Range(resp.table.cols)
  /\ \E i \in DOMAIN resp.table.rows : ~NamesMonth(resp.table.rows[i]["month"])

\* a response all of whose rows carry a well-formed month
WellFormedRows(resp) ==
  /\ Parsed(resp) /\ ~NoRows(resp.table) /\ "month" \in Range(resp.table.cols)
  /\ \A i \in DOMAIN resp.table.rows : NamesMonth(resp.table.rows[i]["month"])

Without(r, col) == [c \in (DOMAIN r) \ {col} |-> r[c]]

BagOfRows(rows) ==
  [x \in {Without(rows[i], "date") : i \in DOMAIN rows} |->
     Cardinality({i \in DOMAIN rows : Without(rows[i], "date") = x})]

ChartElements ==
  <<El("subheader", "Monthly Export Value (NOK)"), El("line_chart", chart.col),
    El("write", "Raw Data Sample"), El("dataframe", "tail"),
    El("success", "Analyst Note")>>

ChartOutcome ==
  /\ ui = ChartElements
  /\ chart # NoChart
  /\ preview.rows = SubSeq(df.rows, IF Len(df.rows) > 5 THEN Len(df.rows) - 4 ELSE 1,
                           Len(df.rows))

NoDataOutcome ==
  /\ El("warning", "No data returned") \in Range(ui)
  /\ Kinds(ui) \subseteq {"error", "warning"}
  /\ chart = NoChart /\ preview = EmptyDF

NoticeOutcome ==
  /\ ui = <<El("warning", "Eurostat API Notice"), El("markdown", "Eurostat steps")>>
  /\ chart = NoChart /\ preview = EmptyDF

----------------------------------------------------------------------------
(* Properties *)

\* C1: while a EUROSTAT entry is selected no step issues a network request,
\* and a press on such an entry leaves fetch_ssb_data uncalled and renders
\* the static notice.
C1_NoCallWhenUnsupported ==
  [][ /\ (SourceOf(target) = "EUROSTAT" => netCalls' = netCalls)
      /\ (SourceOf(target') = "EUROSTAT" /\ pressed' => posted' = <<>> /\ NoticeOutcome') ]_vars

C1_Witness == SourceOf(target) = "EUROSTAT" /\ pressed /\ netCalls > 0

\* C2: the table fetch_ssb_data returns is empty or has its rows in
\* non-decreasing order of date.
C2_SortedOrEmpty ==
  Fetched =>
    \/ NoRows(df)
    \/ \A i, j \in DOMAIN df.rows :
         i < j => DateKey(df.rows[i]["date"]) <= DateKey(df.rows[j]["date"])

C2_Witness ==
  /\ Fetched /\ Len(df.rows) >= 2
  /\ response.table.rows[1]["month"] = df.rows[Len(df.rows)]["month"]
  /\ df.rows[1]["date"] # df.rows[Len(df.rows)]["date"]

\* C3: from a successful response with N >= 1 well-formed rows the result
\* has exactly N rows, the same rows up to order, with the columns other
\* than date as they were parsed.
C3_RowsPreserved ==
  Fetched /\ Is2xx(response) /\ WellFormedRows(response) =>
    /\ Len(df.rows) = Len(response.table.rows)
    /\ BagOfRows(df.rows) = BagOfRows(response.table.rows)
    /\ Range(df.cols) = Range(response.table.cols) \cup {"date"}
    /\ SelectSeq(df.cols, LAMBDA c : c # "date")
         = SelectSeq(response.table.cols, LAMBDA c : c # "date")

C3_Witness ==
  /\ Fetched /\ Is2xx(response) /\ WellFormedRows(response)
  /\ Len(df.rows) = 2
  /\ df.rows[1]["date"] = df.rows[2]["date"]
  /\ df.rows[1] # df.rows[2]

\* C4 as stated: a network failure, any non-2xx status, a malformed body or
\* a missing or malformed month gives an empty table, a message, no raise.
C4_AsStated ==
  Fetched /\ ( \/ ~response.connected
               \/ (response.connected /\ ~Is2xx(response))
               \/ (response.connected /\ ~response.wellformed)
               \/ MonthMissing(response)
               \/ MonthMalformed(response) ) =>
    /\ NoRows(df)
    /\ Count(ui, {"error"}) >= 1
    /\ "exception" \notin Kinds(ui)

\* C4 (amended): a network failure, a 4xx or 5xx status, a malformed body
\* or a missing or malformed month gives an empty table, a message, no raise.
C4_FailureIsCaught ==
  Fetched /\ ( \/ ~response.connected
               \/ (response.connected /\ response.status >= 400)
               \/ (response.connected /\ ~response.wellformed)
               \/ MonthMissing(response)
               \/ MonthMalformed(response) ) =>
    /\ NoRows(df)
    /\ Count(ui, {"error"}) >= 1
    /\ "exception" \notin Kinds(ui)

C4_Witness ==
  /\ Fetched /\ Is2xx(response) /\ MonthMalformed(response)
  /\ NoRows(df) /\ El("error", "ValueError") \in Range(ui)

\* C5: a successful response whose table has no rows gives an empty table,
\* no raise and no failure message, only the caller's no-data warning.
C5_EmptyIsNotAnError ==
  Fetched /\ Is2xx(response) /\ Parsed(response) /\ NoRows(response.table) =>
    /\ NoRows(df)
    /\ ui = <<El("warning", "No data returned")>>

C5_Witness ==
  /\ Fetched /\ Is2xx(response) /\ Parsed(response) /\ NoRows(response.table)
  /\ "month" \notin Range(response.table.cols)
  /\ NoRows(df)

\* C6 as stated: after a transport or parse failure exactly one message is
\* shown for the press, and no chart or preview.
C6_AsStated ==
  Fetched /\ (~response.connected \/ response.status >= 400 \/ ~response.wellformed) =>
    /\ Count(ui, MessageKinds) = 1
    /\ chart = NoChart /\ preview = EmptyDF

\* C6 (amended): after a transport or parse failure the press shows exactly
\* one error message followed by what an empty result shows, the no-data
\* warning: two messages, and no chart or preview.
C6_ErrorThenNoData ==
  Fetched /\ (~response.connected \/ response.status >= 400 \/ ~response.wellformed) =>
    /\ Len(ui) = 2
    /\ ui[1].kind = "error"
    /\ ui[2] = El("warning", "No data returned")
    /\ chart = NoChart /\ preview = EmptyDF

C6_Witness ==
  /\ Fetched /\ response.connected /\ response.status = 500
  /\ Len(ui) = 2 /\ ui[1] = El("error", "HTTPError")

\* C7: in a non-empty result every date is the first day of the month its
\* row's month code names, so the order by date is the order by (year, month).
C7_DateIsFirstOfMonth ==
  Fetched /\ ~NoRows(df) =>
    /\ \A i \in DOMAIN df.rows :
         /\ NamesMonth(df.rows[i]["month"])
         /\ df.rows[i]["date"] = FirstOfMonth(df.rows[i]["month"])
    /\ \A i, j \in DOMAIN df.rows :
         (DateKey(df.rows[i]["date"]) <= DateKey(df.rows[j]["date"]))
           <=> \/ NamedYear(df.rows[i]["month"]) < NamedYear(df.rows[j]["month"])
               \/ /\ NamedYear(df.rows[i]["month"]) = NamedYear(df.rows[j]["month"])
                  /\ NamedMonth(df.rows[i]["month"]) <= NamedMonth(df.rows[j]["month"])

C7_Witness ==
  /\ Fetched /\ Len(df.rows) = 2
  /\ df.rows[2]["month"] = <<"2","0","2","4","M","0","3">>
  /\ df.rows[2]["date"] = [year |-> 2024, month |-> 3, day |-> 1]
  /\ df.rows[1]["date"] = [year |-> 2023, month |-> 12, day |-> 1]

\* C8: the number of requests issued equals the number of presses made on an
\* SSB target, and a request belongs to a run whose button was pressed.
C8_OneCallPerPress ==
  /\ netCalls = ssbPresses
  /\ (posted # <<>> => pressed /\ SourceOf(target) = "SSB")
  /\ (pressed /\ SourceOf(target) = "SSB" => posted = COMPANY_MAP[target].codes)

C8_Witness ==
  /\ netCalls >= 2 /\ Fetched /\ ~response.connected

\* C9 as stated: for a non-empty result the chart is drawn from the column
\* value, else from the last column; that column is not date and rendering
\* does not fail.
C9_AsStated ==
  Fetched /\ ~NoRows(df) =>
    /\ "exception" \notin Kinds(ui)
    /\ "line_chart" \in Kinds(ui)
    /\ chart.col = (IF "value" \in Range(df.cols) THEN "value" ELSE df.cols[Len(df.cols)])
    /\ chart.col # "date"

\* C10 as stated: a press ends in exactly one of the chart, the no-data
\* warning and the unsupported-source notice, each under its condition.
C10_AsStated ==
  pressed =>
    /\ ChartOutcome <=> (SourceOf(target) = "SSB" /\ ~NoRows(df))
    /\ NoDataOutcome <=> (SourceOf(target) = "SSB" /\ NoRows(df))
    /\ NoticeOutcome <=> (SourceOf(target) = "EUROSTAT")
    /\ Cardinality({k \in {"chart", "nodata", "notice"} :
                      \/ k = "chart" /\ ChartOutcome
                      \/ k = "nodata" /\ NoDataOutcome
                      \/ k = "notice" /\ NoticeOutcome}) = 1

====
